---- MODULE Spec2Model ----
(***************************************************************************)
(* Model of the Food Nutrition & Emissions Analyzer dashboard (src/g3.py). *)
(*                                                                         *)
(* The dashboard is a script that is run again from its first line after   *)
(* every widget interaction.  The widget state (check boxes, quantity      *)
(* sliders, calorie target) survives between runs; every script variable   *)
(* (selected_foods, agg_data, total_calories, ...) is rebuilt by each run. *)
(*                                                                         *)
(* Numbers.  The script computes with floats; the model computes the same  *)
(* expressions exactly, on scaled integers:                                *)
(*   - a quantity in ounces is held in half-ounces (the slider's step);    *)
(*   - a mass in kilograms is held in units of 1/KgDen kg, so that         *)
(*     oz * 0.0283495 is the integer  half_oz * HalfOzToKgNum              *)
(*     (0.0283495 / 2 = 56699 / 4000000);                                  *)
(*   - a total coefficient * kg is held in units of 1/KgDen of the         *)
(*     coefficient's unit; round() is round-half-to-even on that fraction. *)
(***************************************************************************)
EXTENDS Integers, Sequences, FiniteSets, TLC

\* ------------------------------------------------------------------ bounds
\* The targets the user is modelled to enter: the first MaxTargetSteps + 1
\* values of the number input's grid, its default and its maximum.
MaxTargetSteps == 2

\* ------------------------------------------------------- program constants
KgDen == 4000000
HalfOzToKgNum == 56699
HalfOzPerOz == 2

TargetMin == 100
TargetMax == 2000
TargetDefault == 700
TargetStep == 50

SliderMin == 1
SliderMax == 32
SliderValue == 2

OnTargetBand == 50

\* ------------------------------------------------------------ the catalog
NutrientKeys == <<"Carbohydrates (g)", "Fats (g)", "Proteins (g)">>

EmissionKeys ==
    <<"food_emissions_land_use", "food_emissions_farm",
      "food_emissions_animal_feed", "food_emissions_processing",
      "food_emissions_transport", "food_emissions_retail",
      "food_emissions_packaging", "food_emissions_losses">>

\* The keys of agg_data, in the order of the dict literal.
AggKeys ==
    <<"Carbohydrates (g)", "Fats (g)", "Proteins (g)", "Calories">> \o EmissionKeys

Range(s) == {s[i] : i \in DOMAIN s}

CsvRow(entity, carbs, proteins, fats, em) ==
    [col \in {"Entity"} \cup Range(NutrientKeys) \cup Range(EmissionKeys) |->
        CASE col = "Entity" -> entity
          [] col = "Carbohydrates (g)" -> carbs
          [] col = "Proteins (g)" -> proteins
          [] col = "Fats (g)" -> fats
          [] OTHER -> em[CHOOSE i \in DOMAIN EmissionKeys : EmissionKeys[i] = col]]

\* "Combined Data on Food.csv": per-kilogram coefficients, one row per food,
\* not in alphabetical order; an emission may be negative.
CsvRows ==
    << CsvRow("Cheese", 10, 60, 95, <<45, 130, 23, 7, 1, 3, 2, 6>>),
       CsvRow("Celery",  3,  1,  0, <<-3, 7, 0, 1, 2, 1, 4, 1>>) >>

\* Mutant of Calories: fat counted at 4 calories per gram.
CaloriesFatAsFour(row) ==
    row["Carbohydrates (g)"] * 4 + row["Proteins (g)"] * 4 + row["Fats (g)"] * 4

\* df['Calories'] = carbs * 4 + proteins * 4 + fats * 9
Calories(row) ==
    row["Carbohydrates (g)"] * 4 + row["Proteins (g)"] * 4 + row["Fats (g)"] * 9

load_data ==
    [i \in DOMAIN CsvRows |-> CsvRows[i] @@ ("Calories" :> Calories(CsvRows[i]))]

df == load_data

\* Alphabetical position of a name (string order, which TLA+ does not have).
AlphaRank(name) ==
    CASE name = "Celery" -> 1
      [] name = "Cheese" -> 2
      [] OTHER -> 3

\* sorted(S): the elements of S in ascending order.
sorted(S) ==
    CHOOSE s \in [1..Cardinality(S) -> S] :
        /\ Range(s) = S
        /\ \A i, j \in DOMAIN s : i < j => AlphaRank(s[i]) < AlphaRank(s[j])

\* food_items = sorted(df["Entity"].unique())
food_items == sorted({df[i]["Entity"] : i \in DOMAIN df})

\* --------------------------------------------------------- unit conversion
\* oz_to_kg(oz_value) = oz_value * 0.0283495
\* oz_value in half-ounces, the result in units of 1/KgDen kg (exact).
oz_to_kg(oz_value) == oz_value * HalfOzToKgNum

\* kg_to_oz(kg_value) = kg_value / 35.274
\* kg_value in units of 1/KgDen kg; the result in micro-ounces, rounded down:
\* (k / KgDen) / 35.274 oz = k * 250 / 35274 micro-ounces.
kg_to_oz(kg_value) == (kg_value * 250) \div 35274

\* ------------------------------------------------------------- arithmetic
None == <<>>
Some(x) == <<x>>

Abs(x) == IF x < 0 THEN -x ELSE x

\* Python's round(): the integer nearest to num / den, a tie going to the
\* even one (den > 0).
RoundHalfEven(num, den) ==
    LET q == num \div den
        r == num % den
    IN  IF 2 * r < den THEN q
        ELSE IF 2 * r > den THEN q + 1
        ELSE IF q % 2 = 0 THEN q ELSE q + 1

\* round(x, ndigits) of x = num / den, in units of 1/scale (scale = 10^ndigits,
\* a divisor of den).
RoundTo(num, den, scale) == RoundHalfEven(num, den \div scale)

\* --------------------------------------------------------------- the state
VARIABLES
    checked,          \* widget state check_{food}: food -> BOOLEAN
    qty_state,        \* widget state qty_{food}: food -> half-ounces, of the
                      \* sliders the last run rendered
    calorie_target,   \* widget state of the "Target Calories" number input
    selected_foods,   \* dict food -> quantity (half-ounces) built by the run
    agg_data,         \* None before the dict literal, then Some(totals)
    todo,             \* the foods the aggregation loop has still to visit
    pc,               \* "loop": in/after the for loop; "idle": the run ended;
                      \* "halted": the run ended in an exception
    exception,        \* the exception that ended the run, or ""
    progress,         \* None or Some([total_calories, calorie_percentage, band, delta])
    summary_data,     \* None or Some(the "Nutritional Summary" table)
    emissions_data,   \* None or Some(the "Emissions Summary" table)
    selected_df,      \* None or Some(the "Selected Foods Details" rows)
    page              \* the elements the run has rendered

widgets == <<checked, qty_state, calorie_target>>
outputs == <<progress, summary_data, emissions_data, selected_df>>
vars == <<checked, qty_state, calorie_target, selected_foods, agg_data, todo,
          pc, exception, progress, summary_data, emissions_data, selected_df, page>>

\* Mutant of TargetChoices: the number input starts at 0 (min_value=0).
TargetChoicesFromZero ==
    {TargetStep * i : i \in 0..MaxTargetSteps}
        \cup {TargetDefault, TargetMax}

\* The targets the user enters in the number input (min 100, max 2000,
\* default 700, step 50).
TargetChoices ==
    {TargetMin + TargetStep * i : i \in 0..MaxTargetSteps}
        \cup {TargetDefault, TargetMax}

\* Mutant of SliderChoices: the slider starts at 0.0 ounces (min_value=0.0).
SliderChoicesFromZero == 0..SliderMax

\* The positions of a quantity slider (0.5 .. 16.0 in steps of 0.5).
SliderChoices == SliderMin..SliderMax

\* ---------------------------------------------------------- the script run
\* Mutant of Truthy: the aggregation runs for an empty selection too.
TruthyAlways(d) == TRUE

\* if selected_foods:
Truthy(d) == DOMAIN d # {}

\* Lines 157-178: one entry per ticked check box, in food_items order, its
\* value the slider's (a slider rendered for the first time has value=1.0).
BuildSelection(chk, sld) ==
    [food \in {f \in Range(food_items) : chk[f]} |->
        IF food \in DOMAIN sld THEN sld[food] ELSE SliderValue]

\* The iteration order of the dict: insertion order.
DictOrder(d) == SelectSeq(food_items, LAMBDA f : f \in DOMAIN d)

\* agg_data = {"Carbohydrates (g)": 0, ...}
ZeroTotals == [k \in Range(AggKeys) |-> 0]

\* Mutant of Filter: best effort, a name the catalog lacks counts as a food
\* whose coefficients are all zero.
FilterOrZeroRow(food) ==
    LET frame == SelectSeq(df, LAMBDA row : row["Entity"] = food)
    IN  IF Len(frame) = 0 THEN <<[col \in DOMAIN df[1] |-> 0]>> ELSE frame

\* df[df["Entity"] == food]
Filter(food) == SelectSeq(df, LAMBDA row : row["Entity"] = food)

\* Mutant of Accumulate: = in place of +=.
AccumulateOverwrite(agg, food_data, qty_kg) ==
    [key \in DOMAIN agg |-> food_data[key] * qty_kg]

\* for key in agg_data: agg_data[key] += food_data[key] * qty_kg
Accumulate(agg, food_data, qty_kg) ==
    [key \in DOMAIN agg |-> agg[key] + food_data[key] * qty_kg]

\* The script from its first line up to the for loop at line 205, run with
\* the widget state (chk, sld, tgt).
RunScript(chk, sld, tgt) ==
    LET sel == BuildSelection(chk, sld)
    IN  /\ checked' = chk
        /\ qty_state' = sel
        /\ calorie_target' = tgt
        /\ selected_foods' = sel
        /\ exception' = ""
        /\ progress' = None
        /\ summary_data' = None
        /\ emissions_data' = None
        /\ selected_df' = None
        /\ IF Truthy(sel)
           THEN /\ page' = {"sliders", "info_count"}
                /\ agg_data' = Some(ZeroTotals)
                /\ todo' = DictOrder(sel)
                /\ pc' = "loop"
           ELSE /\ page' = {"warning_select", "info_select"}
                /\ agg_data' = None
                /\ todo' = <<>>
                /\ pc' = "idle"

\* total_calories = round(agg_data["Calories"])
TotalCalories(agg) == RoundHalfEven(agg["Calories"], KgDen)

\* Mutant of Min100: the percentage is not capped.
Min100NoCap(x) == x

\* min(100, x) for x = num / den, den > 0
Min100(x) == IF 100 * x.den <= x.num THEN [num |-> 100, den |-> 1] ELSE x

\* calorie_percentage = min(100, (total_calories / calorie_target) * 100),
\* as a fraction num / den; None when the division raises ZeroDivisionError.
CaloriePercentage(total_calories, target) ==
    IF target = 0 THEN None
    ELSE Some(Min100(IF target > 0
                     THEN [num |-> total_calories * 100, den |-> target]
                     ELSE [num |-> -(total_calories * 100), den |-> -target]))

\* Mutant of CalorieText: the band excludes its boundary (< in place of <=).
CalorieTextStrict(total_calories, target) ==
    IF Abs(total_calories - target) < OnTargetBand
    THEN [band |-> "within", delta |-> 0]
    ELSE IF total_calories > target
         THEN [band |-> "over", delta |-> total_calories - target]
         ELSE [band |-> "under", delta |-> target - total_calories]

\* Lines 219-224: the band of calorie_text and the number it reports (the
\* "within" text reports none: 0).
CalorieText(total_calories, target) ==
    IF Abs(total_calories - target) <= OnTargetBand
    THEN [band |-> "within", delta |-> 0]
    ELSE IF total_calories > target
         THEN [band |-> "over", delta |-> total_calories - target]
         ELSE [band |-> "under", delta |-> target - total_calories]

\* Mutant of Share: the zero total is avoided by dividing by max(total, 1).
ShareMaxOne(cal, total_calories) ==
    RoundHalfEven(cal * 100, (IF total_calories > 1 THEN total_calories ELSE 1) * 10)

\* f"{round((cal / total_calories) * 100)}%" if total_calories > 0 else "0%"
\* (cal in tenths of a calorie; the result is the number before the % sign)
Share(cal, total_calories) ==
    IF total_calories > 0
    THEN RoundHalfEven(cal * 100, total_calories * 10)
    ELSE 0

\* summary_data, lines 238-262; amounts and calories in tenths.
Summary(agg, total_calories) ==
    LET carbs_cal == RoundTo(agg["Carbohydrates (g)"] * 4, KgDen, 10)
        protein_cal == RoundTo(agg["Proteins (g)"] * 4, KgDen, 10)
        fat_cal == RoundTo(agg["Fats (g)"] * 9, KgDen, 10)
    IN  [amount |-> << RoundTo(agg["Carbohydrates (g)"], KgDen, 10),
                       RoundTo(agg["Proteins (g)"], KgDen, 10),
                       RoundTo(agg["Fats (g)"], KgDen, 10),
                       RoundTo(agg["Carbohydrates (g)"] + agg["Proteins (g)"]
                                   + agg["Fats (g)"], KgDen, 10) >>,
         calories |-> <<carbs_cal, protein_cal, fat_cal,
                        carbs_cal + protein_cal + fat_cal>>,
         pct |-> << Share(carbs_cal, total_calories),
                    Share(protein_cal, total_calories),
                    Share(fat_cal, total_calories),
                    100 >>]

RECURSIVE SumSeq(_)
SumSeq(s) == IF s = <<>> THEN 0 ELSE Head(s) + SumSeq(Tail(s))

\* emissions_data, lines 272-288, in thousandths of a kg CO2 eq.
Emissions(agg) ==
    [i \in 1..(Len(EmissionKeys) + 1) |->
        IF i <= Len(EmissionKeys)
        THEN RoundTo(agg[EmissionKeys[i]], KgDen, 1000)
        ELSE RoundTo(SumSeq([j \in DOMAIN EmissionKeys |-> agg[EmissionKeys[j]]]),
                     KgDen, 1000)]

\* The rows of the "Selected Foods Details" table, lines 295-324.
Details(sel) ==
    LET order == DictOrder(sel)
        total(food, col) == Filter(food)[1][col] * oz_to_kg(sel[food])
    IN  [i \in DOMAIN order |->
            [Entity |-> order[i],
             Quantity |-> sel[order[i]],
             TotalCalories |-> total(order[i], "Calories"),
             TotalCarbohydrates |-> total(order[i], "Carbohydrates (g)"),
             TotalProteins |-> total(order[i], "Proteins (g)"),
             TotalFats |-> total(order[i], "Fats (g)"),
             land_use |-> total(order[i], "food_emissions_land_use"),
             farm |-> total(order[i], "food_emissions_farm"),
             animal_feed |-> total(order[i], "food_emissions_animal_feed"),
             transport |-> total(order[i], "food_emissions_transport")]]

\* ---------------------------------------------------------------- actions
\* The first run of the script: nothing ticked, the target at its default.
Init ==
    /\ checked = [f \in Range(food_items) |-> FALSE]
    /\ qty_state = <<>>
    /\ calorie_target = TargetDefault
    /\ selected_foods = <<>>
    /\ agg_data = None
    /\ todo = <<>>
    /\ pc = "idle"
    /\ exception = ""
    /\ progress = None
    /\ summary_data = None
    /\ emissions_data = None
    /\ selected_df = None
    /\ page = {"warning_select", "info_select"}

\* The user ticks or unticks the check box of a food; the script runs again.
ToggleCheck(food) ==
    RunScript([checked EXCEPT ![food] = ~@], qty_state, calorie_target)

\* The user moves the quantity slider of a selected food.
MoveSlider(food, value) ==
    /\ food \in DOMAIN qty_state
    /\ value # qty_state[food]
    /\ RunScript(checked, [qty_state EXCEPT ![food] = value], calorie_target)

\* The user enters another calorie target.
SetTarget(target) ==
    /\ target # calorie_target
    /\ RunScript(checked, qty_state, target)

\* One iteration of the loop at lines 205-210.
AggStep ==
    /\ pc = "loop"
    /\ todo # <<>>
    /\ LET food == Head(todo)
           qty_oz == selected_foods[food]
           frame == Filter(food)
       IN  IF Len(frame) = 0
           THEN \* .iloc[0] of an empty frame raises IndexError
                /\ pc' = "halted"
                /\ exception' = "IndexError"
                /\ UNCHANGED <<agg_data, todo>>
           ELSE /\ agg_data' = Some(Accumulate(agg_data[1], frame[1], oz_to_kg(qty_oz)))
                /\ todo' = Tail(todo)
                /\ UNCHANGED <<pc, exception>>
    /\ UNCHANGED <<widgets, selected_foods, outputs, page>>

\* The rest of the script after the loop, lines 212-324.
Render ==
    /\ pc = "loop"
    /\ todo = <<>>
    /\ LET agg == agg_data[1]
           total_calories == TotalCalories(agg)
           calorie_percentage == CaloriePercentage(total_calories, calorie_target)
       IN  IF calorie_percentage = None
           THEN /\ pc' = "halted"
                /\ exception' = "ZeroDivisionError"
                /\ page' = page \cup {"subheader_progress"}
                /\ UNCHANGED outputs
           ELSE /\ pc' = "idle"
                /\ exception' = ""
                /\ progress' = Some([total_calories |-> total_calories,
                                     calorie_percentage |-> calorie_percentage[1],
                                     calorie_text |->
                                        CalorieText(total_calories, calorie_target)])
                /\ summary_data' = Some(Summary(agg, total_calories))
                /\ emissions_data' = Some(Emissions(agg))
                /\ selected_df' = Some(Details(selected_foods))
                /\ page' = page \cup {"subheader_progress", "progress", "calorie_text",
                                      "nutrition_chart", "summary", "emissions_chart",
                                      "emissions_summary", "details"}
    /\ UNCHANGED <<widgets, selected_foods, agg_data, todo>>

Next ==
    \/ \E food \in Range(food_items) : ToggleCheck(food)
    \/ \E food \in Range(food_items), value \in SliderChoices : MoveSlider(food, value)
    \/ \E target \in TargetChoices : SetTarget(target)
    \/ AggStep
    \/ Render

Spec == Init /\ [][Next]_vars

\* -------------------------------------------- the aggregation on any input
\* The aggregation block (lines 189-324) started on a selection that the
\* check boxes cannot produce: any non-empty dict over the catalog's names and
\* a name the catalog lacks, iterated in any order, with any target.
EngineNames == Range(food_items) \cup {"Unlisted"}

EngineQuantities == {SliderMin, SliderValue, SliderMax}

EngineTargets == {0, TargetMin, TargetDefault}

EngineSelections ==
    UNION {[D -> EngineQuantities] : D \in (SUBSET EngineNames) \ {{}}}

Orders(S) ==
    {s \in [1..Cardinality(S) -> S] : Range(s) = S}

EngineInit ==
    /\ selected_foods \in EngineSelections
    /\ checked = [f \in Range(food_items) |-> f \in DOMAIN selected_foods]
    /\ qty_state = selected_foods
    /\ calorie_target \in EngineTargets
    /\ agg_data = Some(ZeroTotals)
    /\ todo \in Orders(DOMAIN selected_foods)
    /\ pc = "loop"
    /\ exception = ""
    /\ progress = None
    /\ summary_data = None
    /\ emissions_data = None
    /\ selected_df = None
    /\ page = {"sliders", "info_count"}

EngineNext ==
    \/ AggStep
    \/ Render

EngineSpec == EngineInit /\ [][EngineNext]_vars

\* ------------------------------------------------------------- properties
RECURSIVE WeightedSum(_, _, _)
\* The sum over the foods in `foods` of coefficient * oz_to_kg(quantity).
WeightedSum(sel, foods, key) ==
    IF foods = {} THEN 0
    ELSE LET f == CHOOSE x \in foods : TRUE
         IN  Filter(f)[1][key] * oz_to_kg(sel[f])
                 + WeightedSum(sel, foods \ {f}, key)

CoefficientKeys == Range(NutrientKeys) \cup Range(EmissionKeys)

\* C1: when a run has ended with a non-empty selection, the selection is
\* exactly the ticked foods with their sliders' quantities, and every tracked
\* total is the sum over the selected foods of coefficient * oz_to_kg(quantity),
\* whatever interactions came before; for a single food that is
\* coefficient * oz_to_kg(quantity).
C1_TotalsAreWeightedSums ==
    (pc = "idle" /\ DOMAIN selected_foods # {}) =>
        /\ DOMAIN selected_foods = {f \in DOMAIN checked : checked[f]}
        /\ selected_foods = qty_state
        /\ agg_data # None
        /\ \A key \in CoefficientKeys :
              /\ agg_data[1][key]
                    = WeightedSum(selected_foods, DOMAIN selected_foods, key)
              /\ \A f \in DOMAIN selected_foods :
                    DOMAIN selected_foods = {f} =>
                        agg_data[1][key]
                            = Filter(f)[1][key] * oz_to_kg(selected_foods[f])

C1_Witness ==
    /\ pc = "idle"
    /\ DOMAIN selected_foods = {"Celery", "Cheese"}
    /\ selected_foods["Celery"] = 32
    /\ selected_foods["Cheese"] = 5
    /\ agg_data[1]["food_emissions_land_use"]
          = 45 * oz_to_kg(5) - 3 * oz_to_kg(32)

\* C2: whenever the totals exist, also between two iterations of the loop,
\* the Calories total is 4 * carbohydrates + 4 * proteins + 9 * fats of the
\* same totals.
C2_CaloriesDerived ==
    agg_data # None =>
        agg_data[1]["Calories"]
            = 4 * agg_data[1]["Carbohydrates (g)"]
                + 4 * agg_data[1]["Proteins (g)"]
                + 9 * agg_data[1]["Fats (g)"]

C2_Witness ==
    /\ pc = "loop"
    /\ Len(todo) = 1
    /\ agg_data # None
    /\ agg_data[1]["Calories"] > 0
    /\ agg_data[1]["Fats (g)"] = 0

\* C3: kg_to_oz(oz_to_kg(x)) is x, within one part in a thousand, for the
\* quantity x of every selected food (x in micro-ounces).
C3_RoundTrip ==
    \A f \in DOMAIN selected_foods :
        LET x == selected_foods[f] * (1000000 \div HalfOzPerOz)
        IN  Abs(kg_to_oz(oz_to_kg(selected_foods[f])) - x) <= x \div 1000

\* C4: exactly one band is reported; it is "within" iff
\* |total - target| <= 50, "over" with the excess iff total - target > 50,
\* "under" with the shortfall iff target - total > 50; a reported excess or
\* shortfall is greater than 50.
C4_Bands ==
    progress # None =>
        LET total == progress[1].total_calories
            text == progress[1].calorie_text
        IN  /\ text.band \in {"within", "over", "under"}
            /\ (text.band = "within") <=> (Abs(total - calorie_target) <= 50)
            /\ (text.band = "over") <=> (total - calorie_target > 50)
            /\ (text.band = "under") <=> (calorie_target - total > 50)
            /\ (text.band = "over") => (text.delta = total - calorie_target)
            /\ (text.band = "under") => (text.delta = calorie_target - total)
            /\ (text.band # "within") => (text.delta > 50)

C4_Witness ==
    /\ progress # None
    /\ progress[1].calorie_text.band = "within"
    /\ calorie_target - progress[1].total_calories = 50

\* C5: while the selection holds a name the catalog lacks, no run ends
\* normally and nothing derived from the totals is surfaced; the run that
\* meets the name ends in IndexError at the lookup.
C5_LookupFailsFast ==
    (\E f \in DOMAIN selected_foods : \A i \in DOMAIN df : df[i]["Entity"] # f) =>
        /\ pc # "idle"
        /\ progress = None
        /\ summary_data = None
        /\ emissions_data = None
        /\ selected_df = None
        /\ page \subseteq {"sliders", "info_count"}
        /\ (pc = "halted") =>
              /\ exception = "IndexError"
              /\ todo # <<>>
              /\ \A i \in DOMAIN df : df[i]["Entity"] # Head(todo)

C5_Witness ==
    /\ pc = "halted"
    /\ exception = "IndexError"
    /\ agg_data[1]["Calories"] > 0
    /\ progress = None
    /\ page = {"sliders", "info_count"}

\* C6: the progress percentage is min(100, 100 * total / target): 100 when
\* the total reaches the target, 100 * total / target below it, never above
\* 100 and never negative.
C6_Percentage ==
    progress # None =>
        LET total == progress[1].total_calories
            p == progress[1].calorie_percentage
        IN  /\ p.den > 0
            /\ 0 <= p.num
            /\ p.num <= 100 * p.den
            /\ IF total >= calorie_target
               THEN p.num = 100 * p.den
               ELSE p.num * calorie_target = 100 * total * p.den

C6_Witness ==
    /\ progress # None
    /\ progress[1].total_calories > calorie_target
    /\ progress[1].calorie_percentage.num = 100 * progress[1].calorie_percentage.den

\* C7 as stated: the target is at least 100 whenever the percentage is
\* computed, and the computation does not divide by zero for the target 0.
C7_GuardedAgainstZero ==
    progress # None =>
        /\ calorie_target >= 100
        /\ CaloriePercentage(progress[1].total_calories, 0) # None

\* C7 as amended: no run ends in ZeroDivisionError and the target is at
\* least 100 whenever the percentage is computed; the computation itself is
\* unguarded, and raises ZeroDivisionError for the target 0.
C7_TargetAtLeastMin ==
    /\ exception # "ZeroDivisionError"
    /\ (pc = "loop" \/ progress # None) => calorie_target >= 100
    /\ progress # None =>
          CaloriePercentage(progress[1].total_calories, 0) = None

C7_Witness ==
    /\ progress # None
    /\ calorie_target = 100
    /\ progress[1].total_calories > 0

\* C8: when the total calories are zero each macronutrient share is 0 (and
\* the run ends normally); when they are positive each share is the integer
\* nearest to 100 * nutrient calories / total calories.
C8_Shares ==
    summary_data # None =>
        LET total == progress[1].total_calories
            s == summary_data[1]
        IN  /\ exception = ""
            /\ total >= 0
            /\ \A i \in 1..3 :
                  /\ (total = 0) => (s.pct[i] = 0)
                  /\ (total > 0) =>
                        \* calories are in tenths: |pct - 100 * (cal/10) / total| <= 1/2
                        Abs(10 * total * s.pct[i] - 100 * s.calories[i]) <= 5 * total

C8_Witness ==
    /\ summary_data # None
    /\ progress[1].total_calories = 0
    /\ summary_data[1].calories[1] > 0
    /\ summary_data[1].pct[1] = 0

\* C9 as stated: an empty selection yields all-zero totals and 0% in every
\* percentage-of-total field.
C9_EmptyGivesZeros ==
    (pc = "idle" /\ DOMAIN selected_foods = {}) =>
        /\ agg_data # None
        /\ \A key \in DOMAIN agg_data[1] : agg_data[1][key] = 0
        /\ summary_data # None
        /\ \A i \in 1..3 : summary_data[1].pct[i] = 0

\* C9 as amended: an empty selection yields no totals and no
\* percentage-of-total field at all; the run renders the two prompts to
\* select a food and nothing else.
C9_EmptyGivesNothing ==
    (pc = "idle" /\ DOMAIN selected_foods = {}) =>
        /\ agg_data = None
        /\ progress = None
        /\ summary_data = None
        /\ emissions_data = None
        /\ selected_df = None
        /\ page = {"warning_select", "info_select"}

C9_Witness ==
    /\ pc = "idle"
    /\ DOMAIN selected_foods = {}
    /\ calorie_target # TargetDefault
    /\ page = {"warning_select", "info_select"}

\* C10: every key of the selection names a row of the catalog and its
\* quantity is one of 0.5, 1.0, ..., 16.0 ounces (1..32 half-ounces), so no
\* run ends in IndexError.
C10_SelectionInCatalog ==
    /\ exception # "IndexError"
    /\ \A f \in DOMAIN selected_foods :
          /\ \E i \in DOMAIN df : df[i]["Entity"] = f
          /\ Len(Filter(f)) > 0
          /\ selected_foods[f] \in 1..32

C10_Witness ==
    /\ pc = "idle"
    /\ DOMAIN selected_foods = {"Celery", "Cheese"}
    /\ selected_foods["Celery"] = 1
    /\ selected_foods["Cheese"] = 32
    /\ selected_df # None
    /\ Len(selected_df[1]) = 2

====
